---------------------------- MODULE Spec2Model ----------------------------
(***************************************************************************)
(* A model of the Quill "variables" toolbar module (src/src/variables.ts): *)
(* the catalog flattener (collectLeaves), the token formatter              *)
(* (formatToken), the insertion planner (insert / _insertAt) and the menu  *)
(* controller (openMenu, closeMenu, the click and keydown handlers,        *)
(* renderMenu, updateVariables, destroy).                                  *)
(*                                                                         *)
(* Strings are sequences of one-character strings, so that joining,        *)
(* wrapping and the character classes of the spacing rule are computed.    *)
(* A catalog (VariableTree) is the sequence of its entries in the order    *)
(* they were declared; ObjectEntries gives the order in which JavaScript   *)
(* enumerates them.  Presentation-only data (description, icon,            *)
(* placeholder, CSS classes) is left out: no operation reads it back.      *)
(* HTMLElement.focus() and quill.focus() are taken to move                 *)
(* document.activeElement to the element they are called on.               *)
(***************************************************************************)
EXTENDS Integers, Sequences, FiniteSets, TLC

VARIABLES
  variables,          \* this.options.variables: the catalog, as declared
  includeParentNodes, \* this.options.includeParentNodes
  token,              \* this.options.token
  hidden,             \* this.menuEl.hidden
  ariaExpanded,       \* buttonEl's aria-expanded attribute ("true" / "false")
  menuChildren,       \* child elements of menuEl, in document order
  itemsEls,           \* this.itemsEls: the keyboard navigation list
  activeElement,      \* document.activeElement
  listening,          \* the five listeners of buildUi are registered
  attached,           \* rootEl is a child of the toolbar container
  text,               \* the host buffer's text
  selection,          \* the host's selection (quill.getSelection)
  calls,              \* host calls issued by the last operation, in order
  ev,                 \* the last operation, its input and the state it met
  out                 \* the value returned by the last flattener call

vars == <<variables, includeParentNodes, token, hidden, ariaExpanded,
          menuChildren, itemsEls, activeElement, listening, attached,
          text, selection, calls, ev, out>>

---------------------------------------------------------------------------
(* Bounds of the model *)

\* most nodes a catalog drawn for the flattener has
MaxNodes == 4

\* most characters the host buffer holds
MaxText == 10

\* most characters of a buffer drawn for the insertion planner
MaxInitText == 3

\* most characters a buffer of the insertion planner grows to
MaxInsertText == 12

\* most characters of a string, or elements of an array, given as children
MaxElems == 2

---------------------------------------------------------------------------
(* Strings *)

Digits == {"0", "1", "2", "3", "4", "5", "6", "7", "8", "9"}

Letters ==
  {"a", "b", "c", "d", "e", "f", "g", "h", "i", "j", "k", "l", "m",
   "n", "o", "p", "q", "r", "s", "t", "u", "v", "w", "x", "y", "z",
   "A", "B", "C", "D", "E", "F", "G", "H", "I", "J", "K", "L", "M",
   "N", "O", "P", "Q", "R", "S", "T", "U", "V", "W", "X", "Y", "Z"}

DigitValue(c) ==
  CASE c = "0" -> 0 [] c = "1" -> 1 [] c = "2" -> 2 [] c = "3" -> 3
    [] c = "4" -> 4 [] c = "5" -> 5 [] c = "6" -> 6 [] c = "7" -> 7
    [] c = "8" -> 8 [] c = "9" -> 9

\* a join that keeps the last part only
Join_last(parts, sep) == IF parts = <<>> THEN <<>> ELSE parts[Len(parts)]

\* Array.prototype.join: the parts separated by sep
RECURSIVE Join(_, _)
Join(parts, sep) ==
  IF parts = <<>> THEN <<>>
  ELSE IF Len(parts) = 1 THEN parts[1]
  ELSE parts[1] \o sep \o Join(Tail(parts), sep)

\* s.indexOf-style search: TRUE iff element x occurs in sequence s
Contains(s, x) == \E i \in 1..Len(s) : s[i] = x

---------------------------------------------------------------------------
(* The catalog: VariableTree = Record<string, VarNode> *)

\* A node as declared.  children is the sequence of <<key, node>> entries
\* of node.children in declaration order; the empty sequence stands for a
\* children mapping that is absent or empty, which line 349 treats alike.
VarNode(k, t, c) == [key |-> k, title |-> t, children |-> c]

\* an own property key that is an array index ("0", "7", "12") is
\* enumerated before every other key, in ascending numeric order
IsIndexKey(k) ==
  /\ Len(k) >= 1
  /\ \A i \in 1..Len(k) : k[i] \in Digits
  /\ (Len(k) > 1 => k[1] # "0")

RECURSIVE IndexValue(_)
IndexValue(k) ==
  IF k = <<>> THEN 0
  ELSE 10 * IndexValue(SubSeq(k, 1, Len(k) - 1)) + DigitValue(k[Len(k)])

\* insert entry e into the sequence s of index-key entries sorted ascending
RECURSIVE InsertByIndex(_, _)
InsertByIndex(s, e) ==
  IF s = <<>> THEN <<e>>
  ELSE IF IndexValue(e.key) < IndexValue(Head(s).key) THEN <<e>> \o s
  ELSE <<Head(s)>> \o InsertByIndex(Tail(s), e)

RECURSIVE SortByIndex(_)
SortByIndex(s) ==
  IF s = <<>> THEN <<>> ELSE InsertByIndex(SortByIndex(Tail(s)), Head(s))

HasIndexKey(e) == IsIndexKey(e.key)
HasStringKey(e) == ~IsIndexKey(e.key)

\* an enumeration that keeps index keys where they were declared
ObjectEntries_declared(tree) == tree

\* Object.entries(tree): index keys ascending, then the other keys in the
\* order they were declared
ObjectEntries(tree) ==
  SortByIndex(SelectSeq(tree, HasIndexKey)) \o SelectSeq(tree, HasStringKey)

---------------------------------------------------------------------------
(* Tree flattener *)

NoGroup == [present |-> FALSE, key |-> <<>>, title |-> <<>>]
Group(k, t) == [present |-> TRUE, key |-> k, title |-> t]

\* node.title || key
TitleOrKey(node) == IF node.title # <<>> THEN node.title ELSE node.key

LeafItem(p, t, g) == [path |-> p, title |-> t, group |-> g]

\* node.children && Object.keys(node.children).length > 0
HasChildren(node) == Len(node.children) > 0

\* a flattener that emits every internal node, whatever the policy
InternalItems_always(self, below, incl) == <<self>> \o below

\* a flattener that emits an internal node after its descendants
InternalItems_after(self, below, incl) ==
  below \o (IF incl THEN <<self>> ELSE <<>>)

\* lines 351-365: what an internal node contributes, given its own item and
\* the items of its children
InternalItems(self, below, incl) ==
  (IF incl THEN <<self>> ELSE <<>>) \o below

\* a flattener that hands its own group down unchanged
ChildGroup_inherited(path, node, parent) == parent

\* lines 361-364: the group handed down to the children of the node at path
ChildGroup(path, node, parent) == Group(path, TitleOrKey(node))

\* collectLeaves(tree, prefix, parent) under this.options.includeParentNodes
RECURSIVE collectLeaves(_, _, _, _)
collectLeaves(tree, prefix, parent, incl) ==
  LET entries == ObjectEntries(tree)
      RECURSIVE Loop(_)
      Loop(i) ==
        IF i > Len(entries) THEN <<>>
        ELSE
          LET node == entries[i]
              pathParts == Append(prefix, node.key)
              path == Join(pathParts, <<".">>)
              self == LeafItem(path, TitleOrKey(node), parent)
          IN  (IF HasChildren(node)
               THEN InternalItems(self,
                                  collectLeaves(node.children, pathParts,
                                                ChildGroup(path, node, parent),
                                                incl),
                                  incl)
               ELSE <<self>>)
              \o Loop(i + 1)
  IN  Loop(1)

Paths(items) == [i \in 1..Len(items) |-> items[i].path]

\* getAvailableVariables()
getAvailableVariables(tree, incl) ==
  Paths(collectLeaves(tree, <<>>, NoGroup, incl))

---------------------------------------------------------------------------
(* Token formatter *)

\* an optional string property: absent (undefined) or a value
Absent == [present |-> FALSE, val |-> <<>>]
Str(v) == [present |-> TRUE, val |-> v]

\* x || d: an empty string is replaced by the default too
OrDefault_falsy(x, d) == IF x.present /\ x.val # <<>> THEN x.val ELSE d

\* x ?? d
OrDefault(x, d) == IF x.present THEN x.val ELSE d

ObjectToken(o, c) == [kind |-> "object", open |-> o, close |-> c, fn |-> "none"]
FunctionToken(f) == [kind |-> "function", open |-> Absent, close |-> Absent, fn |-> f]
NoToken == [kind |-> "absent", open |-> Absent, close |-> Absent, fn |-> "none"]

\* DEFAULTS.token
DefaultToken == ObjectToken(Str(<<"{", "{">>), Str(<<"}", "}">>))

\* token: opts.token ?? DEFAULTS.token
ResolveToken(opt) == IF opt.kind = "absent" THEN DefaultToken ELSE opt

\* two formatting functions a caller passes:
\* (path) => `${${path}}` and (path) => `[${path}]`
DollarFn(path) == <<"$", "{">> \o path \o <<"}">>
BracketFn(path) == <<"[">> \o path \o <<"]">>

\* t(path) for the caller's function named f
ApplyTokenFn(f, path) ==
  CASE f = "dollar" -> DollarFn(path)
    [] f = "bracket" -> BracketFn(path)

\* formatToken(path) under this.options.token = t
formatToken(t, path) ==
  IF t.kind = "function" THEN ApplyTokenFn(t.fn, path)
  ELSE LET open == OrDefault(t.open, <<"{", "{">>)
           close == OrDefault(t.close, <<"}", "}">>)
       IN  open \o path \o close

---------------------------------------------------------------------------
(* The host buffer (Quill) *)

NoRange == [present |-> FALSE, index |-> 0, length |-> 0]
Range(i, n) == [present |-> TRUE, index |-> i, length |-> n]

Call(op, i, n, t) == [op |-> op, index |-> i, length |-> n, text |-> t]

\* quill.getText(index, length): the document always ends with a newline
GetText(txt, index, length) ==
  LET doc == txt \o <<"\n">>
      last == IF index + length > Len(doc) THEN Len(doc) ELSE index + length
  IN  SubSeq(doc, index + 1, last)

\* quill.deleteText(index, length)
DeleteText(txt, index, length) ==
  LET last == IF index + length > Len(txt) THEN Len(txt) ELSE index + length
  IN  SubSeq(txt, 1, index) \o SubSeq(txt, last + 1, Len(txt))

\* quill.insertText(index, s)
InsertText(txt, index, s) ==
  SubSeq(txt, 1, index) \o s \o SubSeq(txt, index + 1, Len(txt))

\* /\w/ on one character
IsWordChar(c) == c \in Letters \cup Digits \cup {"_"}

\* a spacing test that takes the closing brace for the opening one
NeedsTrailingSpace_close(s) ==
  \E i \in 1..Len(s) : IsWordChar(s[i]) \/ s[i] = "}"

\* a spacing test that knows word characters only
NeedsLeadingSpace_word(s) == \E i \in 1..Len(s) : IsWordChar(s[i])

\* /\w|\}/.test(s) for s of at most one character
NeedsLeadingSpace(s) == \E i \in 1..Len(s) : IsWordChar(s[i]) \/ s[i] = "}"

\* /\w|\{/.test(s)
NeedsTrailingSpace(s) == \E i \in 1..Len(s) : IsWordChar(s[i]) \/ s[i] = "{"

\* a caret placed after the replaced selection's length as well
CaretAfter_replaced(range, final) == range.index + range.length + Len(final)

\* range.index + text.length
CaretAfter(range, final) == range.index + Len(final)

\* an _insertAt that reads the adjacent characters first and deletes the
\* selected range afterwards
insertAt_readFirst(range, path, txt, t) ==
  LET tokenText == formatToken(t, path)
      before == IF range.index > 0 THEN GetText(txt, range.index - 1, 1)
                ELSE <<>>
      after == GetText(txt, range.index, 1)
      deleted == DeleteText(txt, range.index, range.length)
      lead == IF NeedsLeadingSpace(before) THEN <<" ">> \o tokenText
              ELSE tokenText
      final == IF NeedsTrailingSpace(after) THEN lead \o <<" ">> ELSE lead
  IN  [text |-> InsertText(deleted, range.index, final),
       selection |-> Range(CaretAfter(range, final), 0),
       calls |-> (IF range.index > 0
                  THEN <<Call("getText", range.index - 1, 1, <<>>)>>
                  ELSE <<>>)
                 \o <<Call("getText", range.index, 1, <<>>),
                      Call("deleteText", range.index, range.length, <<>>),
                      Call("insertText", range.index, 0, final),
                      Call("setSelection", CaretAfter(range, final), 0, <<>>)>>]

\* _insertAt(range, path): the buffer, the selection and the host calls made
insertAt(range, path, txt, t) ==
  LET tokenText == formatToken(t, path)
      deleted == DeleteText(txt, range.index, range.length)
      before == IF range.index > 0 THEN GetText(deleted, range.index - 1, 1)
                ELSE <<>>
      after == GetText(deleted, range.index, 1)
      lead == IF NeedsLeadingSpace(before) THEN <<" ">> \o tokenText
              ELSE tokenText
      final == IF NeedsTrailingSpace(after) THEN lead \o <<" ">> ELSE lead
  IN  [text |-> InsertText(deleted, range.index, final),
       selection |-> Range(CaretAfter(range, final), 0),
       calls |-> <<Call("deleteText", range.index, range.length, <<>>)>>
                 \o (IF range.index > 0
                     THEN <<Call("getText", range.index - 1, 1, <<>>)>>
                     ELSE <<>>)
                 \o <<Call("getText", range.index, 1, <<>>),
                      Call("insertText", range.index, 0, final),
                      Call("setSelection", CaretAfter(range, final), 0, <<>>)>>]

\* an insert that gives up when the first getSelection returns nothing
insert_noRetry(path, txt, sel, r2, t) ==
  IF ~sel.present
  THEN [text |-> txt, selection |-> sel,
        calls |-> <<Call("getSelection", 0, 0, <<>>)>>]
  ELSE LET r == insertAt(sel, path, txt, t)
       IN  [r EXCEPT !.calls = <<Call("getSelection", 0, 0, <<>>)>> \o @]

\* insert(path): sel is what getSelection(true) returns, r2 what it returns
\* after quill.focus()
insert(path, txt, sel, r2, t) ==
  IF ~sel.present
  THEN IF ~r2.present
       THEN [text |-> txt, selection |-> r2,
             calls |-> <<Call("getSelection", 0, 0, <<>>),
                         Call("focus", 0, 0, <<>>),
                         Call("getSelection", 0, 0, <<>>)>>]
       ELSE LET r == insertAt(r2, path, txt, t)
            IN  [r EXCEPT !.calls = <<Call("getSelection", 0, 0, <<>>),
                                      Call("focus", 0, 0, <<>>),
                                      Call("getSelection", 0, 0, <<>>)>> \o @]
  ELSE LET r == insertAt(sel, path, txt, t)
       IN  [r EXCEPT !.calls = <<Call("getSelection", 0, 0, <<>>)>> \o @]

---------------------------------------------------------------------------
(* The menu's elements *)

Element(tag, id, p, t) == [tag |-> tag, id |-> id, path |-> p, text |-> t]

Body == Element("body", 0, <<>>, <<>>)        \* no element has focus
ButtonEl == Element("button", 0, <<>>, <<>>)  \* this.buttonEl, the trigger
Editor == Element("editor", 0, <<>>, <<>>)    \* the host's editing surface

\* createItemButton(item): the id-th element pushed on itemsEls
ItemEl(id, item) == Element("item", id, item.path, item.title)
\* sectionTitle(text)
TitleEl(t) == Element("title", 0, <<>>, t)
\* sectionDivider()
DividerEl == Element("divider", 0, <<>>, <<>>)

\* group keys in the order in which they are last discovered, back to front
RECURSIVE GroupKeys_lastFirst(_)
GroupKeys_lastFirst(items) ==
  IF items = <<>> THEN <<>>
  ELSE LET rest == GroupKeys_lastFirst(Tail(items))
           first == Head(items)
       IN  IF first.group.present
              /\ ~\E i \in 1..Len(rest) : rest[i] = first.group.key
           THEN Append(rest, first.group.key)
           ELSE rest

\* the keys of the Map `groups` of renderMenu, in insertion order
RECURSIVE GroupKeys(_)
GroupKeys(items) ==
  IF items = <<>> THEN <<>>
  ELSE LET rest == GroupKeys(SubSeq(items, 1, Len(items) - 1))
           last == items[Len(items)]
       IN  IF last.group.present /\ ~\E i \in 1..Len(rest) : rest[i] = last.group.key
           THEN Append(rest, last.group.key)
           ELSE rest

\* groups.get(key): the title of the first item seen with that group key,
\* and all the items with that group key
GroupOf(items, key) ==
  LET InGroup(it) == it.group.present /\ it.group.key = key
      members == SelectSeq(items, InGroup)
  IN  [title |-> members[1].group.title, items |-> members]

\* the item elements of `members`, numbered from id base + 1
ItemEls(members, base) == [i \in 1..Len(members) |-> ItemEl(base + i, members[i])]

\* the group sections of renderMenu for the group keys ks, the first item
\* element getting id base + 1
RECURSIVE GroupSections(_, _, _)
GroupSections(items, ks, base) ==
  IF ks = <<>> THEN <<>>
  ELSE LET g == GroupOf(items, Head(ks))
       IN  <<TitleEl(g.title)>> \o ItemEls(g.items, base) \o <<DividerEl>>
           \o GroupSections(items, Tail(ks), base + Len(g.items))

\* renderMenu(): the children appended to the (emptied) menu
renderMenu(tree, incl) ==
  LET items == collectLeaves(tree, <<>>, NoGroup, incl)
      Ungrouped(it) == ~it.group.present
      ungrouped == SelectSeq(items, Ungrouped)
      frag == (IF Len(ungrouped) > 0
               THEN ItemEls(ungrouped, 0) \o <<DividerEl>>
               ELSE <<>>)
              \o GroupSections(items, GroupKeys(items), Len(ungrouped))
  IN  IF Len(frag) > 0 /\ frag[Len(frag)].tag = "divider"
      THEN SubSeq(frag, 1, Len(frag) - 1)
      ELSE frag

IsItem(el) == el.tag = "item"

\* the items of the groups with keys ks, group after group
RECURSIVE GroupItems(_, _)
GroupItems(items, ks) ==
  IF ks = <<>> THEN <<>>
  ELSE GroupOf(items, Head(ks)).items \o GroupItems(items, Tail(ks))

\* a menu laid out in flatten order, without sections
MenuOrder_flat(items) == items

\* the order in which renderMenu calls createItemButton on the flattened
\* items: the ungrouped ones, then each group's, group after group
MenuOrder(items) ==
  LET Ungrouped(it) == ~it.group.present
  IN  SelectSeq(items, Ungrouped) \o GroupItems(items, GroupKeys(items))

\* this.itemsEls after renderMenu: createItemButton pushes each button it
\* creates, the ungrouped ones first and then each group's
renderItems(tree, incl) ==
  ItemEls(MenuOrder(collectLeaves(tree, <<>>, NoGroup, incl)), 0)

\* menuEl.innerHTML = '' detaches the old items; a detached element cannot
\* keep focus, which falls back to the body
AfterDetach(active) == IF active.tag = "item" THEN Body ELSE active

\* items.indexOf(current): 0-based, -1 when absent
IndexOf(items, el) ==
  IF \E i \in 1..Len(items) : items[i] = el
  THEN (CHOOSE i \in 1..Len(items) :
          items[i] = el /\ \A j \in 1..(i - 1) : items[j] # el) - 1
  ELSE -1

\* JavaScript's a % b for b > 0: the result has the sign of a
JsRem(a, b) == IF a >= 0 THEN a % b ELSE -((-a) % b)

\* a focus() that never moves the focus
FocusAt_stay(items, k, active) == active

\* items[k]?.focus(): the element focused, or the current one when items[k]
\* is undefined (k is a 0-based index, or "NaN" encoded as -1)
FocusAt(items, k, active) ==
  IF k >= 0 /\ k < Len(items) THEN items[k + 1] ELSE active

\* menuEl.querySelector('[role="menuitem"]'): the first item in document order
FirstItem(children, active) ==
  LET its == SelectSeq(children, IsItem)
  IN  IF Len(its) > 0 THEN its[1] ELSE active

---------------------------------------------------------------------------
(* Menu controller: the handlers, as functions of the controller's state   *)
(* m = [hidden, aria, active]                                              *)

Menu(h, a, f) == [hidden |-> h, aria |-> a, active |-> f]

\* an openMenu that shows the menu and leaves focus where it was
openMenu_noFocus(m, children) == Menu(FALSE, "true", m.active)

\* openMenu()
openMenu(m, children) == Menu(FALSE, "true", FirstItem(children, m.active))

\* a closeMenu that hides the menu and leaves aria-expanded as it was
closeMenu_noAria(m) == IF m.hidden THEN m ELSE Menu(TRUE, m.aria, ButtonEl)

\* a closeMenu that hides the menu and does not return focus to the trigger
closeMenu_noRefocus(m) == IF m.hidden THEN m ELSE Menu(TRUE, "false", m.active)

\* closeMenu()
closeMenu(m) == IF m.hidden THEN m ELSE Menu(TRUE, "false", ButtonEl)

\* toggleMenu(): boundButtonClick passes no `force`
toggleMenu(m, children) ==
  IF m.hidden THEN openMenu(m, children) ELSE closeMenu(m)

\* an onDocumentClick whose containment test lost its negation
onDocumentClick_inverted(m, inside) ==
  IF m.hidden THEN m
  ELSE IF inside THEN closeMenu(m) ELSE m

\* onDocumentClick(e): inside is rootEl.contains(e.target)
onDocumentClick(m, inside) ==
  IF m.hidden THEN m
  ELSE IF ~inside THEN closeMenu(m) ELSE m

\* an onButtonKeydown that toggles the menu as a click does
onButtonKeydown_toggle(m, key, children) ==
  IF key = "ArrowDown" \/ key = "Enter" \/ key = " "
  THEN toggleMenu(m, children)
  ELSE m

\* onButtonKeydown(e)
onButtonKeydown(m, key, children) ==
  IF key = "ArrowDown" \/ key = "Enter" \/ key = " "
  THEN openMenu(m, children)
  ELSE m

\* an onMenuKeydown whose arrow keys stop at the ends instead of wrapping
onMenuKeydown_noWrap(m, key, items) ==
  LET i == IndexOf(items, m.active)
      n == Len(items)
  IN  CASE key = "Escape" -> closeMenu(m)
        [] key = "ArrowDown" -> [m EXCEPT !.active = FocusAt(items, i + 1, @)]
        [] key = "ArrowUp" -> [m EXCEPT !.active = FocusAt(items, i - 1, @)]
        [] key = "Home" -> [m EXCEPT !.active = FocusAt(items, 0, @)]
        [] key = "End" -> [m EXCEPT !.active = FocusAt(items, n - 1, @)]
        [] OTHER -> m

\* an onMenuKeydown whose Home and End need an item to have focus
onMenuKeydown_noJump(m, key, items) ==
  LET i == IndexOf(items, m.active)
      n == Len(items)
  IN  CASE key = "Escape" -> closeMenu(m)
        [] key = "ArrowDown" ->
             [m EXCEPT !.active =
                IF n = 0 THEN @ ELSE FocusAt(items, JsRem(i + 1 + n, n), @)]
        [] key = "ArrowUp" ->
             [m EXCEPT !.active =
                IF n = 0 THEN @ ELSE FocusAt(items, JsRem(i - 1 + n, n), @)]
        [] key = "Home" /\ i >= 0 -> [m EXCEPT !.active = FocusAt(items, 0, @)]
        [] key = "End" /\ i >= 0 -> [m EXCEPT !.active = FocusAt(items, n - 1, @)]
        [] OTHER -> m

\* onMenuKeydown(e)
onMenuKeydown(m, key, items) ==
  LET i == IndexOf(items, m.active)
      n == Len(items)
  IN  CASE key = "Escape" -> closeMenu(m)
        [] key = "ArrowDown" ->
             [m EXCEPT !.active =
                IF n = 0 THEN @ ELSE FocusAt(items, JsRem(i + 1 + n, n), @)]
        [] key = "ArrowUp" ->
             [m EXCEPT !.active =
                IF n = 0 THEN @ ELSE FocusAt(items, JsRem(i - 1 + n, n), @)]
        [] key = "Home" -> [m EXCEPT !.active = FocusAt(items, 0, @)]
        [] key = "End" -> [m EXCEPT !.active = FocusAt(items, n - 1, @)]
        [] OTHER -> m

---------------------------------------------------------------------------
(* Inputs *)

\* the keys a keydown event carries
KeyNames == {"Escape", "ArrowDown", "ArrowUp", "Home", "End", "Enter", " "}

Leaf(k, t) == VarNode(k, t, <<>>)

\* the catalogs passed to the constructor and to updateVariables
SampleCatalogs ==
  { <<>>,
    <<Leaf(<<"x">>, <<"X">>)>>,
    <<VarNode(<<"u">>, <<"U">>, <<Leaf(<<"f">>, <<"F">>), Leaf(<<"l">>, <<>>)>>),
      Leaf(<<"x">>, <<"X">>)>>,
    <<VarNode(<<"u">>, <<>>,
              <<Leaf(<<"f">>, <<"F">>),
                VarNode(<<"c">>, <<"C">>, <<Leaf(<<"n">>, <<"N">>)>>)>>)>> }

\* the token options passed to the constructor
TokenOptions == {NoToken, FunctionToken("dollar")}

\* the contents of the host buffer at construction
InitTexts == {<<>>, <<"H", "i">>}

\* what the host's getSelection can report for a buffer holding txt when
\* it is first asked or asked again after focus(): no selection, a caret
\* at the end of the buffer, or the whole buffer selected
HostSelections(txt) == {NoRange, Range(Len(txt), 0), Range(0, Len(txt))}

\* the addresses passed to insert() by the caller
InsertPaths == {<<"x">>, <<"z", ".", "z">>}

---------------------------------------------------------------------------
(* The controller as a state machine *)

Cur == Menu(hidden, ariaExpanded, activeElement)

\* the value a flattener call returned: collectLeaves returns items,
\* getAvailableVariables their paths
Out(op, items, paths) == [op |-> op, items |-> items, paths |-> paths]
NoOut == Out("none", <<>>, <<>>)

Event(op, key, target, path) ==
  [op |-> op, key |-> key, target |-> target, path |-> path,
   wasHidden |-> hidden, wasActive |-> activeElement,
   wasListening |-> listening]

\* new Variables(quill, opts): buildUi() renders the menu, hidden
Init ==
  /\ variables \in SampleCatalogs
  /\ includeParentNodes \in BOOLEAN
  /\ token \in {ResolveToken(o) : o \in TokenOptions}
  /\ hidden = TRUE
  /\ ariaExpanded = "false"
  /\ menuChildren = renderMenu(variables, includeParentNodes)
  /\ itemsEls = renderItems(variables, includeParentNodes)
  /\ activeElement = Body
  /\ listening = TRUE
  /\ attached = TRUE
  /\ text \in InitTexts
  /\ selection \in HostSelections(text)
  /\ calls = <<>>
  /\ ev = [op |-> "constructor", key |-> "", target |-> Body, path |-> <<>>,
           wasHidden |-> TRUE, wasActive |-> Body]
  /\ out = NoOut

SetMenu(m) ==
  /\ hidden' = m.hidden
  /\ ariaExpanded' = m.aria
  /\ activeElement' = m.active

\* a click on the trigger: the document's capturing listener runs first,
\* then boundButtonClick
ButtonClick ==
  /\ listening
  /\ SetMenu(toggleMenu(onDocumentClick(Cur, TRUE), menuChildren))
  /\ calls' = <<>>
  /\ ev' = Event("buttonClick", "", ButtonEl, <<>>)
  /\ UNCHANGED <<variables, includeParentNodes, token, menuChildren, itemsEls,
                 listening, attached, text, selection, out>>

\* a keydown on the trigger
ButtonKeydown ==
  \E key \in KeyNames :
    /\ listening
    /\ SetMenu(onButtonKeydown(Cur, key, menuChildren))
    /\ calls' = <<>>
    /\ ev' = Event("buttonKeydown", key, ButtonEl, <<>>)
    /\ UNCHANGED <<variables, includeParentNodes, token, menuChildren, itemsEls,
                   listening, attached, text, selection, out>>

\* a keydown on the displayed menu or on one of its items
MenuKeydown ==
  \E key \in KeyNames :
    /\ listening
    /\ ~hidden
    /\ SetMenu(onMenuKeydown(Cur, key, itemsEls))
    /\ calls' = <<>>
    /\ ev' = Event("menuKeydown", key, activeElement, <<>>)
    /\ UNCHANGED <<variables, includeParentNodes, token, menuChildren, itemsEls,
                   listening, attached, text, selection, out>>

\* a menu click handler without the closest('[data-path]') test: a click on
\* a group title or a divider closes the menu as a click on an item does
MenuClick_anyTarget ==
  \E k \in 1..Len(menuChildren), r2 \in HostSelections(text) :
    LET target == menuChildren[k]
        m == onDocumentClick(Cur, TRUE)
        r == insert(target.path, text, selection, r2, token)
    IN  /\ listening
        /\ ~hidden
        /\ ev' = Event("menuClick", "", target, target.path)
        /\ IF target.tag = "item"
           THEN /\ selection.present => r2 = selection
                /\ Len(r.text) <= MaxText
                /\ text' = r.text
                /\ selection' = r.selection
                /\ calls' = r.calls
                /\ SetMenu(closeMenu([m EXCEPT !.active = Editor]))
           ELSE /\ r2 = NoRange
                /\ SetMenu(closeMenu(m))
                /\ calls' = <<>>
                /\ UNCHANGED <<text, selection>>
        /\ UNCHANGED <<variables, includeParentNodes, token, menuChildren,
                       itemsEls, listening, attached, out>>

\* a click on child k of the displayed menu: the document's capturing
\* listener, then onMenuClick, whose closest('[data-path]') is the item
\* clicked, or null on a group title or a divider
\* (r2, the host's answer after quill.focus(), is read only when the first
\* getSelection returned none)
MenuClick ==
  \E k \in 1..Len(menuChildren), r2 \in HostSelections(text) :
    LET target == menuChildren[k]
        m == onDocumentClick(Cur, TRUE)
        r == insert(target.path, text, selection, r2, token)
    IN  /\ listening
        /\ ~hidden
        /\ ev' = Event("menuClick", "", target, target.path)
        /\ IF target.tag = "item"
           THEN /\ selection.present => r2 = selection
                /\ Len(r.text) <= MaxText
                /\ text' = r.text
                /\ selection' = r.selection
                /\ calls' = r.calls
                /\ SetMenu(closeMenu([m EXCEPT !.active = Editor]))
           ELSE /\ r2 = NoRange
                /\ SetMenu(m)
                /\ calls' = <<>>
                /\ UNCHANGED <<text, selection>>
        /\ UNCHANGED <<variables, includeParentNodes, token, menuChildren,
                       itemsEls, listening, attached, out>>

\* a click outside the trigger and the menu: onDocumentClick
OutsideClick ==
  /\ listening
  /\ SetMenu(onDocumentClick(Cur, FALSE))
  /\ calls' = <<>>
  /\ ev' = Event("outsideClick", "", Body, <<>>)
  /\ UNCHANGED <<variables, includeParentNodes, token, menuChildren, itemsEls,
                 listening, attached, text, selection, out>>

\* an insert that ignores an address the catalog does not offer
Insert_known ==
  \E path \in InsertPaths, r2 \in HostSelections(text) :
    LET known == \E i \in 1..Len(itemsEls) : itemsEls[i].path = path
        r == IF known THEN insert(path, text, selection, r2, token)
             ELSE [text |-> text, selection |-> selection, calls |-> <<>>]
    IN  /\ selection.present => r2 = selection
        /\ Len(r.text) <= MaxText
        /\ text' = r.text
        /\ selection' = r.selection
        /\ calls' = r.calls
        /\ activeElement' = IF known THEN Editor ELSE activeElement
        /\ ev' = Event("insert", "", Body, path)
        /\ UNCHANGED <<variables, includeParentNodes, token, hidden,
                       ariaExpanded, menuChildren, itemsEls, listening,
                       attached, out>>

\* insert(path), called by the host application
Insert ==
  \E path \in InsertPaths, r2 \in HostSelections(text) :
    LET r == insert(path, text, selection, r2, token)
    IN  /\ selection.present => r2 = selection
        /\ Len(r.text) <= MaxText
        /\ text' = r.text
        /\ selection' = r.selection
        /\ calls' = r.calls
        /\ activeElement' = Editor
        /\ ev' = Event("insert", "", Body, path)
        /\ UNCHANGED <<variables, includeParentNodes, token, hidden,
                       ariaExpanded, menuChildren, itemsEls, listening,
                       attached, out>>

\* an updateVariables that stores the catalog and leaves the menu as it is
UpdateVariables_keepsMenu ==
  \E v \in SampleCatalogs :
    /\ variables' = v
    /\ calls' = <<>>
    /\ ev' = Event("updateVariables", "", Body, <<>>)
    /\ UNCHANGED <<includeParentNodes, token, hidden, ariaExpanded, listening,
                   attached, text, selection, out, menuChildren, itemsEls,
                   activeElement>>

\* updateVariables(v)
UpdateVariables ==
  \E v \in SampleCatalogs :
    /\ variables' = v
    /\ menuChildren' = renderMenu(v, includeParentNodes)
    /\ itemsEls' = renderItems(v, includeParentNodes)
    /\ activeElement' = AfterDetach(activeElement)
    /\ calls' = <<>>
    /\ ev' = Event("updateVariables", "", Body, <<>>)
    /\ UNCHANGED <<includeParentNodes, token, hidden, ariaExpanded, listening,
                   attached, text, selection, out>>

\* a destroy that detaches the elements and removes no listener
Destroy_keepsListeners ==
  /\ listening' = listening
  /\ attached' = FALSE
  /\ activeElement' = IF activeElement.tag \in {"item", "button"}
                      THEN Body ELSE activeElement
  /\ calls' = <<>>
  /\ ev' = Event("destroy", "", Body, <<>>)
  /\ UNCHANGED <<variables, includeParentNodes, token, hidden, ariaExpanded,
                 menuChildren, itemsEls, text, selection, out>>

\* destroy(): the five listeners are removed, with the references and the
\* capture flag they were added with; rootEl.remove() detaches the trigger
\* and the menu
Destroy ==
  /\ listening' = FALSE
  /\ attached' = FALSE
  /\ activeElement' = IF activeElement.tag \in {"item", "button"}
                      THEN Body ELSE activeElement
  /\ calls' = <<>>
  /\ ev' = Event("destroy", "", Body, <<>>)
  /\ UNCHANGED <<variables, includeParentNodes, token, hidden, ariaExpanded,
                 menuChildren, itemsEls, text, selection, out>>

Next ==
  \/ ButtonClick
  \/ ButtonKeydown
  \/ MenuKeydown
  \/ MenuClick
  \/ OutsideClick
  \/ Insert
  \/ UpdateVariables
  \/ Destroy

Spec == Init /\ [][Next]_vars

---------------------------------------------------------------------------
(* Construction: the page before new Variables(quill, opts), the           *)
(* constructor as an action, and the input events that follow it           *)

\* what quill.getModule('toolbar') returns: nothing, a module without a
\* container, a module with its container element
Toolbars == {"absent", "noContainer", "present"}

\* a check that accepts any toolbar module, with or without container
ToolbarOk_moduleOnly(tb) == tb # "absent"

\* the negation of  !toolbar || !toolbar.container
ToolbarOk(tb) == tb = "present"

\* the constructor as the last operation: the toolbar it met and whether
\* it threw 'Variables requires the toolbar module.'
ConstructEvent(tb, threw) ==
  [op |-> "constructor", key |-> "", target |-> Body, path |-> <<>>,
   wasHidden |-> hidden, wasActive |-> activeElement,
   toolbar |-> tb, threw |-> threw]

\* no instance yet: nothing in the toolbar, no listener, no options
InitPage ==
  /\ variables = <<>>
  /\ includeParentNodes = FALSE
  /\ token = DefaultToken
  /\ hidden = TRUE
  /\ ariaExpanded = "false"
  /\ menuChildren = <<>>
  /\ itemsEls = <<>>
  /\ activeElement = Body
  /\ listening = FALSE
  /\ attached = FALSE
  /\ text \in InitTexts
  /\ selection \in HostSelections(text)
  /\ calls = <<>>
  /\ ev = [op |-> "none", key |-> "", target |-> Body, path |-> <<>>,
           wasHidden |-> TRUE, wasActive |-> Body]
  /\ out = NoOut

\* new Variables(quill, opts), while no instance is on the page: the
\* options are stored, then the toolbar is checked, then buildUi() runs
Construct ==
  \E tb \in Toolbars, v \in SampleCatalogs, incl \in BOOLEAN,
     opt \in TokenOptions :
    /\ ~attached
    /\ ~listening
    /\ variables' = v
    /\ includeParentNodes' = incl
    /\ token' = ResolveToken(opt)
    /\ IF ToolbarOk(tb)
       THEN /\ attached' = TRUE
            /\ listening' = TRUE
            /\ hidden' = TRUE
            /\ ariaExpanded' = "false"
            /\ menuChildren' = renderMenu(v, incl)
            /\ itemsEls' = renderItems(v, incl)
            /\ ev' = ConstructEvent(tb, FALSE)
       ELSE /\ ev' = ConstructEvent(tb, TRUE)
            /\ UNCHANGED <<attached, listening, hidden, ariaExpanded,
                           menuChildren, itemsEls>>
    /\ calls' = <<>>
    /\ UNCHANGED <<activeElement, text, selection, out>>

NextConstruct ==
  \/ Construct
  \/ ButtonClick
  \/ ButtonKeydown
  \/ MenuKeydown
  \/ MenuClick
  \/ OutsideClick

ConstructSpec == InitPage /\ [][NextConstruct]_vars

---------------------------------------------------------------------------
(* The flattener on its own: every catalog of at most MaxNodes nodes *)

\* the keys of the catalogs drawn: a plain key, two array-index keys and a
\* key that contains the separator
Keys == {<<"a">>, <<"1">>, <<"0">>, <<"a", ".", "1">>}

\* the title declared for a node with key k; nodes with key "1" have an
\* empty title
TitleFor(k) ==
  CASE k = <<"a">> -> <<"A">>
    [] k = <<"1">> -> <<>>
    [] k = <<"0">> -> <<"Z">>
    [] OTHER -> <<"B">>

\* the catalogs of exactly n nodes with keys unique within each mapping
RECURSIVE Forests(_)
Forests(n) ==
  IF n = 0 THEN {<<>>}
  ELSE UNION { UNION { { <<VarNode(k, TitleFor(k), c)>> \o rest :
                            k \in {kk \in Keys :
                                     \A i \in 1..Len(rest) : rest[i].key # kk} } :
                        c \in Forests(m), rest \in Forests(n - 1 - m) } :
               m \in 0..(n - 1) }

FlatCatalogs == UNION {Forests(n) : n \in 0..MaxNodes}

InitFlatten ==
  /\ variables \in FlatCatalogs
  /\ includeParentNodes \in BOOLEAN
  /\ token = DefaultToken
  /\ hidden = TRUE
  /\ ariaExpanded = "false"
  /\ menuChildren = renderMenu(variables, includeParentNodes)
  /\ itemsEls = renderItems(variables, includeParentNodes)
  /\ activeElement = Body
  /\ listening = TRUE
  /\ attached = TRUE
  /\ text = <<>>
  /\ selection = NoRange
  /\ calls = <<>>
  /\ ev = [op |-> "constructor", key |-> "", target |-> Body, path |-> <<>>,
           wasHidden |-> TRUE, wasActive |-> Body]
  /\ out = NoOut

\* collectLeaves(this.options.variables)
CollectLeaves ==
  /\ out' = Out("collectLeaves",
                collectLeaves(variables, <<>>, NoGroup, includeParentNodes),
                <<>>)
  /\ UNCHANGED <<variables, includeParentNodes, token, hidden, ariaExpanded,
                 menuChildren, itemsEls, activeElement, listening, attached,
                 text, selection, calls, ev>>

\* getAvailableVariables()
GetAvailableVariables ==
  /\ out' = Out("getAvailableVariables", <<>>,
                getAvailableVariables(variables, includeParentNodes))
  /\ UNCHANGED <<variables, includeParentNodes, token, hidden, ariaExpanded,
                 menuChildren, itemsEls, activeElement, listening, attached,
                 text, selection, calls, ev>>

NextFlatten ==
  \/ CollectLeaves
  \/ GetAvailableVariables

FlattenSpec == InitFlatten /\ [][NextFlatten]_vars

---------------------------------------------------------------------------
(* The flattener on children values of any type: a caller that is not      *)
(* type-checked can pass a string, a number or an array as children        *)

\* a children value: kind is "absent", "mapping", "string", "number" or
\* "array"; entries are those of a mapping; len is the length of a string
\* or an array, or the value of a number; nulls says that an array's
\* elements are null (they are numbers otherwise)
ChildrenValue(kind, entries, len, nulls) ==
  [kind |-> kind, entries |-> entries, len |-> len, nulls |-> nulls]

DigitChar(i) == CHOOSE c \in Digits : DigitValue(c) = i

\* the entries Object.entries gives for a string or an array of n < 10
\* elements: keys "0" .. "n-1"; a character, a number and null have neither
\* title nor children
IndexEntries(n) == [i \in 1..n |-> VarNode(<<DigitChar(i - 1)>>, <<>>, <<>>)]

\* Object.entries(node.children) when node.children is truthy, none
\* otherwise: a number has no own enumerable property
OwnEntries(value) ==
  CASE value.kind = "mapping" -> value.entries
    [] value.kind \in {"string", "array"} -> IndexEntries(value.len)
    [] OTHER -> <<>>

\* line 349 reads node.children of each entry: a TypeError when the entry
\* is null
Throws(value) == value.kind = "array" /\ value.nulls /\ value.len > 0

ChildrenValues ==
  {ChildrenValue("absent", <<>>, 0, FALSE),
   ChildrenValue("mapping", <<>>, 0, FALSE),
   ChildrenValue("mapping", <<Leaf(<<"k">>, <<"K">>)>>, 0, FALSE),
   ChildrenValue("number", <<>>, 0, FALSE),
   ChildrenValue("number", <<>>, 5, FALSE)}
    \cup {ChildrenValue("string", <<>>, n, FALSE) : n \in 0..MaxElems}
    \cup {ChildrenValue("array", <<>>, n, b) : n \in 0..MaxElems, b \in BOOLEAN}

\* the catalog holding node x with that children value, at the top level
\* or below node p, next to a leaf y
CatalogWith(value, nested) ==
  LET x == VarNode(<<"x">>, <<"X">>, OwnEntries(value))
      y == Leaf(<<"y">>, <<"Y">>)
  IN  IF nested THEN <<VarNode(<<"p">>, <<"P">>, <<x, y>>)>> ELSE <<x, y>>

\* updateVariables(v) as the last operation, with the children value given
\* to node x
UpdateEvent(value, nested) ==
  [op |-> "updateVariables", key |-> "", target |-> Body, path |-> <<>>,
   wasHidden |-> TRUE, wasActive |-> Body, wasListening |-> TRUE,
   children |-> value, nested |-> nested]

\* after updateVariables(v): renderMenu empties the menu and then flattens
InitChildren ==
  \E value \in ChildrenValues, nested \in BOOLEAN :
    /\ variables = CatalogWith(value, nested)
    /\ includeParentNodes \in BOOLEAN
    /\ token = DefaultToken
    /\ hidden = TRUE
    /\ ariaExpanded = "false"
    /\ menuChildren = IF Throws(value) THEN <<>>
                      ELSE renderMenu(variables, includeParentNodes)
    /\ itemsEls = IF Throws(value) THEN <<>>
                  ELSE renderItems(variables, includeParentNodes)
    /\ activeElement = Body
    /\ listening = TRUE
    /\ attached = TRUE
    /\ text = <<>>
    /\ selection = NoRange
    /\ calls = <<>>
    /\ ev = UpdateEvent(value, nested)
    /\ out = NoOut

\* collectLeaves(this.options.variables)
CollectLeavesAnyChildren ==
  /\ out' = IF Throws(ev.children) THEN Out("throw", <<>>, <<>>)
            ELSE Out("collectLeaves",
                     collectLeaves(variables, <<>>, NoGroup, includeParentNodes),
                     <<>>)
  /\ UNCHANGED <<variables, includeParentNodes, token, hidden, ariaExpanded,
                 menuChildren, itemsEls, activeElement, listening, attached,
                 text, selection, calls, ev>>

\* getAvailableVariables()
GetAvailableVariablesAnyChildren ==
  /\ out' = IF Throws(ev.children) THEN Out("throw", <<>>, <<>>)
            ELSE Out("getAvailableVariables", <<>>,
                     getAvailableVariables(variables, includeParentNodes))
  /\ UNCHANGED <<variables, includeParentNodes, token, hidden, ariaExpanded,
                 menuChildren, itemsEls, activeElement, listening, attached,
                 text, selection, calls, ev>>

NextChildren ==
  \/ CollectLeavesAnyChildren
  \/ GetAvailableVariablesAnyChildren

ChildrenSpec == InitChildren /\ [][NextChildren]_vars

---------------------------------------------------------------------------
(* The token formatter on its own: every token option, a few addresses *)

\* the values given to token.open and token.close: left out, empty, the
\* default, one character
OpenOptions == {Absent, Str(<<>>), Str(<<"{", "{">>), Str(<<"[">>)}
CloseOptions == {Absent, Str(<<>>), Str(<<"}", "}">>), Str(<<"]">>)}

\* opts.token: left out, an object, a function
FormatTokenOptions ==
  {NoToken, FunctionToken("dollar"), FunctionToken("bracket")}
    \cup {ObjectToken(o, c) : o \in OpenOptions, c \in CloseOptions}

\* the addresses formatted
FormatPaths ==
  {<<>>, <<"x">>, <<"u", ".", "f">>, <<"}">>, <<"a", " ", "b">>,
   <<"{", "{", "x", "}", "}">>}

InitFormat ==
  /\ variables = <<>>
  /\ includeParentNodes = FALSE
  /\ token \in {ResolveToken(o) : o \in FormatTokenOptions}
  /\ hidden = TRUE
  /\ ariaExpanded = "false"
  /\ menuChildren = renderMenu(variables, includeParentNodes)
  /\ itemsEls = renderItems(variables, includeParentNodes)
  /\ activeElement = Body
  /\ listening = TRUE
  /\ attached = TRUE
  /\ text = <<>>
  /\ selection = NoRange
  /\ calls = <<>>
  /\ ev = [op |-> "constructor", key |-> "", target |-> Body, path |-> <<>>,
           wasHidden |-> TRUE, wasActive |-> Body]
  /\ out = NoOut

\* formatToken(path): out.paths holds the one string returned
FormatToken ==
  \E path \in FormatPaths :
    /\ out' = Out("formatToken", <<>>, <<formatToken(token, path)>>)
    /\ ev' = Event("formatToken", "", Body, path)
    /\ UNCHANGED <<variables, includeParentNodes, token, hidden, ariaExpanded,
                   menuChildren, itemsEls, activeElement, listening, attached,
                   text, selection, calls>>

NextFormat == FormatToken

FormatSpec == InitFormat /\ [][NextFormat]_vars

---------------------------------------------------------------------------
(* The insertion planner on its own: every short buffer, every selection *)

\* the characters of the buffers drawn: two word characters, the two
\* braces and a blank
BufferChars == {"a", "_", "}", "{", " "}

InsertTexts == UNION {[1..n -> BufferChars] : n \in 0..MaxInitText}

\* the token options of the planner: none, a function, the bracket style
InsertTokenOptions ==
  TokenOptions \cup {ObjectToken(Str(<<"[">>), Str(<<"]">>))}

\* every range the host can report for a buffer holding txt
Ranges(txt) ==
  UNION {{Range(i, n) : n \in 0..(Len(txt) - i)} : i \in 0..Len(txt)}

\* insert(path) as the planner's last operation: the buffer it met, what
\* the first getSelection returned and what the one after focus() would
InsertEvent(path, r2) ==
  [op |-> "insert", key |-> "", target |-> Body, path |-> path,
   wasHidden |-> hidden, wasActive |-> activeElement,
   wasText |-> text, wasSelection |-> selection, requery |-> r2]

InitInsert ==
  /\ variables = <<>>
  /\ includeParentNodes = FALSE
  /\ token \in {ResolveToken(o) : o \in InsertTokenOptions}
  /\ hidden = TRUE
  /\ ariaExpanded = "false"
  /\ menuChildren = renderMenu(variables, includeParentNodes)
  /\ itemsEls = renderItems(variables, includeParentNodes)
  /\ activeElement = Body
  /\ listening = TRUE
  /\ attached = TRUE
  /\ text \in InsertTexts
  /\ selection \in Ranges(text) \cup {NoRange}
  /\ calls = <<>>
  /\ ev = [op |-> "constructor", key |-> "", target |-> Body, path |-> <<>>,
           wasHidden |-> TRUE, wasActive |-> Body]
  /\ out = NoOut

\* insert(path), called by the host application; r2 is what the host
\* reports after quill.focus()
InsertCall ==
  \E path \in InsertPaths, r2 \in Ranges(text) \cup {NoRange} :
    LET r == insert(path, text, selection, r2, token)
    IN  /\ selection.present => r2 = selection
        /\ Len(r.text) <= MaxInsertText
        /\ text' = r.text
        /\ selection' = r.selection
        /\ calls' = r.calls
        /\ activeElement' = Editor
        /\ ev' = InsertEvent(path, r2)
        /\ UNCHANGED <<variables, includeParentNodes, token, hidden,
                       ariaExpanded, menuChildren, itemsEls, listening,
                       attached, out>>

NextInsert == InsertCall

InsertSpec == InitInsert /\ [][NextInsert]_vars

---------------------------------------------------------------------------
(* The catalog as a set of nodes, for stating the flattener's properties *)

\* the key paths of all nodes of tree, each prefixed by prefix
RECURSIVE NodePaths(_, _)
NodePaths(tree, prefix) ==
  UNION { {Append(prefix, tree[i].key)}
          \cup NodePaths(tree[i].children, Append(prefix, tree[i].key)) :
          i \in 1..Len(tree) }

\* the node of tree at key path kp
RECURSIVE NodeAt(_, _)
NodeAt(tree, kp) ==
  LET e == tree[CHOOSE i \in 1..Len(tree) : tree[i].key = kp[1]]
  IN  IF Len(kp) = 1 THEN e ELSE NodeAt(e.children, Tail(kp))

Address(kp) == Join(kp, <<".">>)
ParentPath(kp) == SubSeq(kp, 1, Len(kp) - 1)

AllNodes == NodePaths(variables, <<>>)
InternalNodes == {kp \in AllNodes : NodeAt(variables, kp).children # <<>>}
LeafNodes == AllNodes \ InternalNodes
Descendants(kp) ==
  {q \in AllNodes : Len(q) > Len(kp) /\ SubSeq(q, 1, Len(kp)) = kp}
Addresses(nodes) == {Address(kp) : kp \in nodes}

\* some key of the catalog contains the separator "."
HasDottedKey == \E kp \in AllNodes : Contains(kp[Len(kp)], ".")

\* the item the flattener owes to the node at kp
ExpectedItem(kp) ==
  LeafItem(Address(kp), TitleOrKey(NodeAt(variables, kp)),
           IF Len(kp) = 1 THEN NoGroup
           ELSE Group(Address(ParentPath(kp)),
                      TitleOrKey(NodeAt(variables, ParentPath(kp)))))

\* the positions i+1 .. i+d of paths hold exactly the addresses of the d
\* descendants of kp
RunAfter(paths, i, kp) ==
  LET d == Cardinality(Descendants(kp))
  IN  /\ i + d <= Len(paths)
      /\ {paths[j] : j \in (i + 1)..(i + d)} = Addresses(Descendants(kp))

GroupTag(it) == IF it.group.present THEN <<it.group.key>> ELSE <<>>

\* items sharing a group are contiguous in s
Contiguous(s) ==
  \A i, k \in 1..Len(s) :
    (i < k /\ s[i].group.present /\ GroupTag(s[i]) = GroupTag(s[k]))
      => \A j \in i..k : GroupTag(s[j]) = GroupTag(s[i])

\* every ungrouped item of s precedes every grouped one
UngroupedFirst(s) ==
  \A i, j \in 1..Len(s) : (i < j /\ ~s[j].group.present) => ~s[i].group.present

\* the position of the first item of flat in group g
FirstPos(flat, g) == CHOOSE i \in 1..Len(flat) :
  GroupTag(flat[i]) = g /\ \A j \in 1..(i - 1) : GroupTag(flat[j]) # g

\* the groups of s come in the order in which flat first meets them, and
\* the items of one group (or of none) come in the order flat has them
DiscoveryOrder(s, flat) ==
  /\ \A i, j \in 1..Len(s) :
       (i < j /\ s[i].group.present /\ s[j].group.present
          /\ GroupTag(s[i]) # GroupTag(s[j]))
         => FirstPos(flat, GroupTag(s[i])) < FirstPos(flat, GroupTag(s[j]))
  /\ \A g \in {GroupTag(flat[i]) : i \in 1..Len(flat)} :
       LET InG(it) == GroupTag(it) = g
       IN  SelectSeq(s, InG) = SelectSeq(flat, InG)

\* entry j of the mapping tree is enumerated before its entry i: index keys
\* come first, by ascending value; the other keys follow as declared
EnumeratedBefore(tree, j, i) ==
  IF IsIndexKey(tree[j].key)
  THEN \/ ~IsIndexKey(tree[i].key)
       \/ IndexValue(tree[j].key) < IndexValue(tree[i].key)
  ELSE ~IsIndexKey(tree[i].key) /\ j < i

\* the entries of tree in own-property enumeration order
Enumerated(tree) ==
  [r \in 1..Len(tree) |->
     tree[CHOOSE i \in 1..Len(tree) :
            Cardinality({j \in 1..Len(tree) : EnumeratedBefore(tree, j, i)})
              = r - 1]]

\* the addresses of a depth-first pre-order walk of tree that visits each
\* mapping as declared (declared = TRUE) or as enumerated, keeping internal
\* nodes iff incl
RECURSIVE Preorder(_, _, _, _)
Preorder(tree, prefix, incl, declared) ==
  LET es == IF declared THEN tree ELSE Enumerated(tree)
      RECURSIVE Visit(_)
      Visit(i) ==
        IF i > Len(es) THEN <<>>
        ELSE LET kp == Append(prefix, es[i].key)
             IN  (IF es[i].children = <<>> \/ incl THEN <<Address(kp)>>
                  ELSE <<>>)
                 \o Preorder(es[i].children, kp, incl, declared)
                 \o Visit(i + 1)
  IN  Visit(1)

\* some mapping of the catalog declares an index key after another key it
\* is enumerated before
HasReorderedKey ==
  \E kp \in AllNodes \cup {<<>>} :
    LET m == IF kp = <<>> THEN variables ELSE NodeAt(variables, kp).children
    IN  Enumerated(m) # m

---------------------------------------------------------------------------
(* Properties of the flattener, checked under FlattenSpec *)

\* C7, as stated: with includeParentNodes = false, no address returned by
\* getAvailableVariables is the address of an internal node.
C7_NoInternalAddress ==
  (out.op = "getAvailableVariables" /\ ~includeParentNodes)
    => \A i \in 1..Len(out.paths) : out.paths[i] \notin Addresses(InternalNodes)

\* C7, amended: with includeParentNodes = false, getAvailableVariables
\* returns one address per leaf node and nothing else, each the address of
\* a leaf; when no key contains ".", none of them is an internal node's
\* address.
C7_LeafOnly ==
  (out.op = "getAvailableVariables" /\ ~includeParentNodes)
    => /\ Len(out.paths) = Cardinality(LeafNodes)
       /\ \A kp \in LeafNodes : Contains(out.paths, Address(kp))
       /\ \A i \in 1..Len(out.paths) : out.paths[i] \in Addresses(LeafNodes)
       /\ ~HasDottedKey =>
            \A i \in 1..Len(out.paths) :
              out.paths[i] \notin Addresses(InternalNodes)

\* a catalog with internal nodes and no dotted key has been flattened with
\* the default policy
C7_Witness ==
  /\ out.op = "getAvailableVariables"
  /\ ~includeParentNodes
  /\ ~HasDottedKey
  /\ Cardinality(InternalNodes) >= 2
  /\ Len(out.paths) >= 2

\* C8, as stated: with includeParentNodes = true, every internal node's
\* address appears exactly once in the output and the items of all its
\* descendants follow it immediately as one contiguous run.
C8_ParentOnceThenDescendants ==
  (out.op = "getAvailableVariables" /\ includeParentNodes)
    => \A kp \in InternalNodes :
         \E i \in 1..Len(out.paths) :
           /\ out.paths[i] = Address(kp)
           /\ \A j \in 1..Len(out.paths) : out.paths[j] = Address(kp) => j = i
           /\ RunAfter(out.paths, i, kp)

\* C8, amended: with includeParentNodes = true, every node is emitted once,
\* every internal node immediately before the contiguous run of its
\* descendants' items; its address appears exactly once when no key
\* contains ".".
C8_ParentThenDescendants ==
  (out.op = "getAvailableVariables" /\ includeParentNodes)
    => /\ Len(out.paths) = Cardinality(AllNodes)
       /\ \A kp \in InternalNodes :
            \E i \in 1..Len(out.paths) :
              /\ out.paths[i] = Address(kp)
              /\ RunAfter(out.paths, i, kp)
              /\ ~HasDottedKey =>
                   \A j \in 1..Len(out.paths) :
                     out.paths[j] = Address(kp) => j = i

\* an internal node with an internal child, after a sibling, has been
\* flattened with parents included
C8_Witness ==
  /\ out.op = "getAvailableVariables"
  /\ includeParentNodes
  /\ \E kp \in InternalNodes :
       /\ Len(kp) >= 2
       /\ \E i \in 2..Len(out.paths) : out.paths[i] = Address(kp)

\* C9, as stated: in the flatten output all items that share a group
\* address are contiguous and every ungrouped item precedes every grouped
\* item.
C9_FlattenGrouped ==
  out.op = "collectLeaves"
    => Contiguous(out.items) /\ UngroupedFirst(out.items)

\* C9, amended: in the order in which renderMenu lays out the flatten
\* output (the navigation list), all items that share a group address are
\* contiguous, groups appear in first-discovery order with their items in
\* flatten order, and every ungrouped item precedes every grouped item.
C9_MenuOrderGrouped ==
  out.op = "collectLeaves"
    => LET laidOut == MenuOrder(out.items)
       IN  /\ Contiguous(laidOut)
           /\ UngroupedFirst(laidOut)
           /\ DiscoveryOrder(laidOut, out.items)
           /\ Len(laidOut) = Len(out.items)
           /\ [i \in 1..Len(itemsEls) |-> itemsEls[i].path] = Paths(laidOut)

\* a flatten output in which a group's items are interrupted by a nested
\* group's, laid out by renderMenu in another order
C9_Witness ==
  /\ out.op = "collectLeaves"
  /\ ~Contiguous(out.items)
  /\ [i \in 1..Len(itemsEls) |-> itemsEls[i].path] # Paths(out.items)
  /\ Len(itemsEls) = Len(out.items)

\* C10: every flattened item's group is its nearest enclosing internal
\* ancestor {address, title} (absent at top level), also for an internal
\* node emitted under includeParentNodes = true, which is never grouped
\* under itself.  The title is the displayed one, node.title || key.
C10_GroupIsParent ==
  out.op = "collectLeaves"
    => LET emitted == IF includeParentNodes THEN AllNodes ELSE LeafNodes
       IN  /\ Len(out.items) = Cardinality(emitted)
           /\ \A kp \in emitted : Contains(out.items, ExpectedItem(kp))
           /\ \A i \in 1..Len(out.items) :
                /\ \E kp \in emitted : out.items[i] = ExpectedItem(kp)
                /\ out.items[i].group.present
                     => out.items[i].group.key # out.items[i].path

\* an internal node below the top level has been emitted, grouped under its
\* parent, together with its own children grouped under it
C10_Witness ==
  /\ out.op = "collectLeaves"
  /\ includeParentNodes
  /\ \E i, j \in 1..Len(out.items) :
       /\ out.items[i].group.present
       /\ out.items[j].group.present
       /\ out.items[j].group.key = out.items[i].path
       /\ out.items[i].group.key # out.items[i].path

\* C11, as stated: getAvailableVariables returns exactly the dot-joined
\* addresses of a depth-first pre-order traversal that visits top-level
\* entries and children in declaration order, and every returned address
\* resolves to a node of the catalog.
C11_DeclarationPreorder ==
  out.op = "getAvailableVariables"
    => /\ out.paths = Preorder(variables, <<>>, includeParentNodes, TRUE)
       /\ \A i \in 1..Len(out.paths) : out.paths[i] \in Addresses(AllNodes)

\* C11, amended: getAvailableVariables returns exactly the dot-joined
\* addresses of a depth-first pre-order traversal that visits each mapping
\* in own-property enumeration order (array-index keys first, ascending,
\* then the other keys as declared), which is declaration order for every
\* catalog with no array-index key declared out of that order; a second
\* call on the same catalog and policy returns the same sequence, and
\* every returned address is the address of a node of the catalog.
C11_EnumerationPreorder ==
  out.op = "getAvailableVariables"
    => /\ out.paths = Preorder(variables, <<>>, includeParentNodes, FALSE)
       /\ ~HasReorderedKey
            => out.paths = Preorder(variables, <<>>, includeParentNodes, TRUE)
       /\ getAvailableVariables(variables, includeParentNodes) = out.paths
       /\ \A i \in 1..Len(out.paths) : out.paths[i] \in Addresses(AllNodes)

\* a catalog in which one mapping declares key "1" before key "0" has
\* been flattened to at least three addresses, "0" ahead of "1"
C11_Witness ==
  /\ out.op = "getAvailableVariables"
  /\ HasReorderedKey
  /\ Len(out.paths) >= 3
  /\ out.paths # Preorder(variables, <<>>, includeParentNodes, TRUE)
  /\ \E i, j \in 1..Len(out.paths) :
       /\ i < j
       /\ out.paths[i][Len(out.paths[i])] = "0"
       /\ out.paths[j][Len(out.paths[j])] = "1"

\* the element focused after k ArrowDown keydowns in the open menu, starting
\* with focus on the first item of the navigation list
RECURSIVE ArrowDownWalk(_)
ArrowDownWalk(k) ==
  IF k = 0 THEN itemsEls[1]
  ELSE onMenuKeydown(Menu(FALSE, "true", ArrowDownWalk(k - 1)),
                     "ArrowDown", itemsEls).active

\* the items of the menu in document order
ShownItems == SelectSeq(menuChildren, IsItem)

\* C21, as stated: for every catalog, the order in which the menu lays out
\* its items and in which ArrowDown traverses them from the first item
\* equals the order of the flatten output, getAvailableVariables().
C21_MenuInFlattenOrder ==
  out.op = "getAvailableVariables"
    => /\ [i \in 1..Len(ShownItems) |-> ShownItems[i].path] = out.paths
       /\ \A k \in 0..(Len(itemsEls) - 1) :
            ArrowDownWalk(k).path = out.paths[k + 1]

\* C21, amended: ArrowDown from the first item traverses the items in the
\* order in which the menu lays them out, one item per element of the
\* flatten output; that order is the order of the flatten output whenever
\* the flatten output already has every ungrouped item before every
\* grouped one and each group's items contiguous, as for a catalog without
\* internal nodes.
C21_TraversalInLayoutOrder ==
  out.op = "getAvailableVariables"
    => /\ Len(ShownItems) = Len(out.paths)
       /\ Len(itemsEls) = Len(out.paths)
       /\ \A k \in 0..(Len(itemsEls) - 1) : ArrowDownWalk(k) = ShownItems[k + 1]
       /\ LET flat == collectLeaves(variables, <<>>, NoGroup, includeParentNodes)
          IN  (Contiguous(flat) /\ UngroupedFirst(flat))
                => [i \in 1..Len(ShownItems) |-> ShownItems[i].path] = out.paths

\* a catalog whose first top-level entry has children and whose second has
\* none has been flattened: the menu starts with the second entry
C21_Witness ==
  /\ out.op = "getAvailableVariables"
  /\ Len(out.paths) >= 3
  /\ Len(variables) >= 2
  /\ ShownItems[1].path # out.paths[1]
  /\ ArrowDownWalk(1) = ShownItems[2]
  /\ \E i \in 2..Len(out.paths) : ShownItems[1].path = out.paths[i]

\* no value occurs twice in sequence s
NoDuplicates(s) == \A i, j \in 1..Len(s) : i # j => s[i] # s[j]

\* C22, as stated: for every catalog whose keys are unique within each
\* mapping, the flatten output never contains the same address twice, with
\* includeParentNodes false or true.
C22_DistinctAddresses ==
  out.op = "getAvailableVariables" => NoDuplicates(out.paths)

\* C22, amended: for every catalog whose keys are unique within each
\* mapping and contain no ".", distinct nodes get distinct addresses and
\* the flatten output never contains the same address twice, with
\* includeParentNodes false or true.
C22_DistinctUndottedAddresses ==
  (out.op = "getAvailableVariables" /\ ~HasDottedKey)
    => /\ NoDuplicates(out.paths)
       /\ \A p, q \in AllNodes : p # q => Address(p) # Address(q)
       /\ Len(out.paths) =
            Cardinality(IF includeParentNodes THEN AllNodes ELSE LeafNodes)

\* a catalog without dotted keys in which a key is used again one level
\* below itself and at the top has been flattened with parents included
C22_Witness ==
  /\ out.op = "getAvailableVariables"
  /\ ~HasDottedKey
  /\ includeParentNodes
  /\ Len(out.paths) >= 4
  /\ \E kp \in AllNodes : Len(kp) >= 2 /\ kp[1] = kp[2]
  /\ \E kp \in AllNodes : Len(kp) >= 2 /\ <<kp[2]>> \in AllNodes /\ kp[1] # kp[2]

\* C25: a node whose children value is absent, an empty mapping or not a
\* mapping (a string, a number, an array) is flattened without an error
\* to exactly one item, its own, under either includeParentNodes setting,
\* and nothing is emitted for the children value.
C25_NonMappingIsLeaf ==
  (out.op # "none"
     /\ (ev.children.kind # "mapping" \/ ev.children.entries = <<>>))
    => /\ out.op # "throw"
       /\ LET x == IF ev.nested THEN <<"p", ".", "x">> ELSE <<"x">>
              paths == IF out.op = "collectLeaves" THEN Paths(out.items)
                       ELSE out.paths
              IsBelow(p) == Len(p) > Len(x) /\ SubSeq(p, 1, Len(x)) = x
              IsX(p) == p = x
          IN  /\ Len(SelectSeq(paths, IsX)) = 1
              /\ SelectSeq(paths, IsBelow) = <<>>

\* the section of the menu its k-th child is in: 0 before the first group
\* title, j from the j-th group title on
SectionOf(k) ==
  Cardinality({i \in 1..k : menuChildren[i].tag = "title"})

\* the <<address, title>> pairs of the items of section j, in document order
SectionItems(j) ==
  LET InSection(k) == menuChildren[k].tag = "item" /\ SectionOf(k) = j
      RECURSIVE Upto(_)
      Upto(k) ==
        IF k = 0 THEN <<>>
        ELSE Upto(k - 1)
             \o (IF InSection(k)
                 THEN << <<menuChildren[k].path, menuChildren[k].text>> >>
                 ELSE <<>>)
  IN  Upto(Len(menuChildren))

\* the group addresses of flat, and the one that is j-th to be met
GroupTags(flat) ==
  {GroupTag(flat[i]) : i \in {k \in 1..Len(flat) : flat[k].group.present}}
NthGroup(flat, j) ==
  CHOOSE g \in GroupTags(flat) :
    Cardinality({h \in GroupTags(flat) : FirstPos(flat, h) < FirstPos(flat, g)})
      = j - 1

\* the <<address, title>> pairs of the items of flat with group tag g
TaggedItems(flat, g) ==
  LET Tagged(it) == GroupTag(it) = g
      its == SelectSeq(flat, Tagged)
  IN  [i \in 1..Len(its) |-> <<its[i].path, its[i].title>>]

\* C27: the menu's item sequence is the navigation list and a permutation
\* of the flatten output with the same multiset of addresses: first all
\* ungrouped items in flatten order, then one section per group address in
\* the order in which the flatten output first meets the groups, each
\* holding that group's items contiguously and in flatten order.
C27_MenuIsGroupedPermutation ==
  out.op = "collectLeaves"
    => LET flat == out.items
           sections == Cardinality(GroupTags(flat))
       IN  /\ ShownItems = itemsEls
           /\ Len(itemsEls) = Len(flat)
           /\ \A p \in {flat[i].path : i \in 1..Len(flat)} :
                Cardinality({i \in 1..Len(itemsEls) : itemsEls[i].path = p})
                  = Cardinality({i \in 1..Len(flat) : flat[i].path = p})
           /\ SectionOf(Len(menuChildren)) = sections
           /\ SectionItems(0) = TaggedItems(flat, <<>>)
           /\ \A j \in 1..sections :
                SectionItems(j) = TaggedItems(flat, NthGroup(flat, j))

\* a flatten output with two groups and an ungrouped item after them has
\* been laid out, that item before both groups
C27_Witness ==
  /\ out.op = "collectLeaves"
  /\ Cardinality(GroupTags(out.items)) = 2
  /\ ~out.items[Len(out.items)].group.present
  /\ out.items[Len(out.items) - 1].group.present
  /\ Len(SectionItems(0)) >= 1
  /\ Len(SectionItems(2)) >= 1
  /\ [i \in 1..Len(itemsEls) |-> itemsEls[i].path] # Paths(out.items)

---------------------------------------------------------------------------
(* Properties of the token formatter, checked under FormatSpec *)

\* C12: whatever token option the constructor was given, the formatted
\* token is: for an {open, close} object, open + address + close with an
\* empty open or close kept and an absent one replaced by "{{" / "}}";
\* with no token option, "{{" + address + "}}"; for a function, exactly
\* the function's result.
C12_TokenFormat ==
  out.op = "formatToken"
    => \A opt \in FormatTokenOptions :
         ResolveToken(opt) = token
           => out.paths[1] =
                CASE opt.kind = "absent" ->
                       <<"{", "{">> \o ev.path \o <<"}", "}">>
                  [] opt.kind = "function" /\ opt.fn = "dollar" ->
                       DollarFn(ev.path)
                  [] opt.kind = "function" /\ opt.fn = "bracket" ->
                       BracketFn(ev.path)
                  [] opt.kind = "object" ->
                       (IF opt.open.present THEN opt.open.val
                        ELSE <<"{", "{">>)
                       \o ev.path
                       \o (IF opt.close.present THEN opt.close.val
                           ELSE <<"}", "}">>)

\* an address has been formatted with an empty open and an absent close
C12_Witness ==
  /\ out.op = "formatToken"
  /\ token.kind = "object"
  /\ token.open = Str(<<>>)
  /\ ~token.close.present
  /\ ev.path = <<"u", ".", "f">>
  /\ out.paths = << <<"u", ".", "f", "}", "}">> >>

---------------------------------------------------------------------------
(* Properties of the insertion planner, checked under InsertSpec *)

\* the last operation was an insert that was given a range to insert at
Inserted ==
  ev.op = "insert" /\ (ev.wasSelection.present \/ ev.requery.present)

\* the range it was given: the first answer, or the one after focus()
UsedRange == IF ev.wasSelection.present THEN ev.wasSelection ELSE ev.requery

\* the buffer it met, before and after the selected range
Prefix == SubSeq(ev.wasText, 1, UsedRange.index)
Suffix ==
  SubSeq(ev.wasText, UsedRange.index + UsedRange.length + 1, Len(ev.wasText))

\* the character just before index is a word character or "}"
LeadWanted ==
  /\ UsedRange.index > 0
  /\ LET c == Prefix[Len(Prefix)] IN IsWordChar(c) \/ c = "}"

\* the character at index once the range is deleted is a word character
\* or "{"
TrailWanted ==
  /\ Suffix # <<>>
  /\ LET c == Suffix[1] IN IsWordChar(c) \/ c = "{"

\* the text the claim says is written
FinalText ==
  (IF LeadWanted THEN <<" ">> ELSE <<>>)
    \o formatToken(token, ev.path)
    \o (IF TrailWanted THEN <<" ">> ELSE <<>>)

IsInsertText(c) == c.op = "insertText"
IsMutation(c) == c.op \in {"deleteText", "insertText", "setSelection"}

\* the positions of the calls named op in the host log
CallsOf(op) == {i \in 1..Len(calls) : calls[i].op = op}
TheCall(op) == calls[CHOOSE i \in CallsOf(op) : TRUE]

\* C13: the text insert writes at index is the formatted token with one
\* space prepended iff the character just before index is a word character
\* or "}" (never at index 0) and one space appended iff the character at
\* index after the selected range was deleted is a word character or "{";
\* the rest of the buffer is kept around it.
C13_SmartSpacing ==
  Inserted
    => /\ Cardinality(CallsOf("insertText")) = 1
       /\ TheCall("insertText") =
            Call("insertText", UsedRange.index, 0, FinalText)
       /\ text = Prefix \o FinalText \o Suffix

\* a token has replaced a blank between "}" and "{" and got both spaces
C13_Witness ==
  /\ Inserted
  /\ UsedRange.length = 1
  /\ ev.wasText[UsedRange.index + 1] = " "
  /\ Prefix # <<>> /\ Prefix[Len(Prefix)] = "}"
  /\ Suffix # <<>> /\ Suffix[1] = "{"
  /\ TheCall("insertText").text =
       <<" ">> \o formatToken(token, ev.path) \o <<" ">>

\* C14: after a successful insert at {index, length} the host selection
\* is collapsed at index + length(finalText), the added spaces counted and
\* the length of the replaced selection not.
C14_CaretAfterInsert ==
  Inserted
    => /\ selection = Range(UsedRange.index + Len(FinalText), 0)
       /\ Cardinality(CallsOf("setSelection")) = 1
       /\ TheCall("setSelection") =
            Call("setSelection", UsedRange.index + Len(FinalText), 0, <<>>)

\* a selection of two characters after a word character has been replaced
\* and the caret stands after the space and the token
C14_Witness ==
  /\ Inserted
  /\ UsedRange.length = 2
  /\ UsedRange.index = 1
  /\ LeadWanted
  /\ ~TrailWanted
  /\ selection = Range(2 + Len(formatToken(token, ev.path)), 0)

\* C15: an insert that finds no active selection calls focus() exactly
\* once and getSelection exactly once more, in that order; if there is
\* still no selection it makes no deleteText, insertText or setSelection
\* call and leaves the buffer and the selection as they were; otherwise
\* it deletes the re-queried range and inserts at its index.
C15_FocusRetryOnce ==
  (ev.op = "insert" /\ ~ev.wasSelection.present)
    => /\ Cardinality(CallsOf("focus")) = 1
       /\ Cardinality(CallsOf("getSelection")) = 2
       /\ Len(calls) >= 3
       /\ <<calls[1].op, calls[2].op, calls[3].op>>
            = <<"getSelection", "focus", "getSelection">>
       /\ IF ~ev.requery.present
          THEN /\ Len(calls) = 3
               /\ SelectSeq(calls, IsMutation) = <<>>
               /\ text = ev.wasText
               /\ selection = ev.wasSelection
          ELSE /\ Cardinality(CallsOf("deleteText")) = 1
               /\ TheCall("deleteText") =
                    Call("deleteText", ev.requery.index, ev.requery.length, <<>>)
               /\ Cardinality(CallsOf("insertText")) = 1
               /\ TheCall("insertText").index = ev.requery.index
               /\ SubSeq(text, 1, ev.requery.index)
                    = SubSeq(ev.wasText, 1, ev.requery.index)
               /\ Len(text) = Len(ev.wasText) - ev.requery.length
                               + Len(TheCall("insertText").text)

\* an insert with no selection has been given, after focus(), a selection
\* of two characters at index 1 and has replaced it
C15_Witness ==
  /\ ev.op = "insert"
  /\ ~ev.wasSelection.present
  /\ ev.requery = Range(1, 2)
  /\ Cardinality(CallsOf("focus")) = 1
  /\ text # ev.wasText
  /\ selection.present

\* C20: a successful insert calls deleteText(index, length) once, before
\* every read; then reads the character before index (when index > 0) and
\* the character at index, once each, so that the following character is
\* the one at index after the deletion; then calls insertText at index
\* once; then setSelection once, as its last call.
C20_CallOrder ==
  Inserted
    => LET reads == CallsOf("getText")
           del == CHOOSE i \in CallsOf("deleteText") : TRUE
           ins == CHOOSE i \in CallsOf("insertText") : TRUE
           sel == CHOOSE i \in CallsOf("setSelection") : TRUE
           ReadsAt(k) == {i \in reads : calls[i].index = k /\ calls[i].length = 1}
       IN  /\ Cardinality(CallsOf("deleteText")) = 1
           /\ Cardinality(CallsOf("insertText")) = 1
           /\ Cardinality(CallsOf("setSelection")) = 1
           /\ calls[del] =
                Call("deleteText", UsedRange.index, UsedRange.length, <<>>)
           /\ \A i \in CallsOf("getSelection") \cup CallsOf("focus") : i < del
           /\ \A i \in reads : del < i /\ i < ins
           /\ Cardinality(ReadsAt(UsedRange.index)) = 1
           /\ Cardinality(ReadsAt(UsedRange.index - 1))
                = IF UsedRange.index > 0 THEN 1 ELSE 0
           /\ Cardinality(reads) = IF UsedRange.index > 0 THEN 2 ELSE 1
           /\ calls[ins].index = UsedRange.index
           /\ calls[ins].text = FinalText
           /\ ins < sel
           /\ sel = Len(calls)

\* a selection starting with "{" and followed by a blank has been replaced
\* after a word character: two reads, and no space appended
C20_Witness ==
  /\ Inserted
  /\ UsedRange.index > 0
  /\ UsedRange.length >= 1
  /\ ev.wasText[UsedRange.index + 1] = "{"
  /\ Suffix # <<>> /\ Suffix[1] = " "
  /\ LeadWanted
  /\ Cardinality(CallsOf("getText")) = 2
  /\ TheCall("insertText").text = <<" ">> \o formatToken(token, ev.path)

\* the token of the last insert, and where it starts in the buffer (a
\* 0-based index)
LastToken == formatToken(token, ev.path)
LastTokenStart == UsedRange.index + (IF LeadWanted THEN 1 ELSE 0)

\* the n characters of s from 0-based index i on, or as many as s has
Slice(s, i, n) ==
  SubSeq(s, i + 1, IF i + n > Len(s) THEN Len(s) ELSE i + n)

\* s ends in a word character or "}"
EndsSpaceable(s) ==
  s # <<>> /\ (IsWordChar(s[Len(s)]) \/ s[Len(s)] = "}")

\* C23, as stated: for every token policy, a second insert at the caret
\* the first insert left puts its token after the first one with exactly
\* one space between them.
C23_NeverGlued ==
  [][ (Inserted /\ ev'.op = "insert")
      => Slice(text', LastTokenStart, Len(LastToken) + 1 + Len(LastToken'))
           = LastToken \o <<" ">> \o LastToken' ]_vars

\* C23, amended: a second insert at the caret the first insert left puts
\* one space between the two tokens when the first token ends in a word
\* character or "}" (the default {{ }} and the ${ } styles), or when the
\* first insert appended a space itself; with any other last character
\* (the [ ] style) the second token follows the first with nothing between.
C23_GluedUnlessSpaceable ==
  [][ (Inserted /\ ev'.op = "insert")
      => LET between == IF EndsSpaceable(LastToken) \/ TrailWanted
                        THEN <<" ">> ELSE <<>>
         IN  Slice(text', LastTokenStart,
                   Len(LastToken) + Len(between) + Len(LastToken'))
               = LastToken \o between \o LastToken' ]_vars

\* under the default policy a token has been inserted at the caret left
\* just after an earlier token, one space apart
C23_Witness ==
  /\ Inserted
  /\ token = DefaultToken
  /\ ev.wasSelection.present
  /\ ev.wasSelection.length = 0
  /\ \E p \in InsertPaths :
       LET first == formatToken(token, p)
           c == ev.wasSelection.index
       IN  /\ c >= Len(first)
           /\ SubSeq(ev.wasText, c - Len(first) + 1, c) = first
           /\ SubSeq(text, c - Len(first) + 1, c + 1 + Len(LastToken))
                = first \o <<" ">> \o LastToken

---------------------------------------------------------------------------
(* Properties of the menu controller, checked under Spec; C16, about    *)
(* construction, under ConstructSpec                                      *)

\* tok alone, or with one space before it, after it, or both
Spaced(tok) ==
  {tok, <<" ">> \o tok, tok \o <<" ">>, <<" ">> \o tok \o <<" ">>}

\* the last operation was an activation of the trigger that met a closed menu
TriggerActivated ==
  /\ ev.wasHidden
  /\ \/ ev.op = "buttonClick"
     \/ ev.op = "buttonKeydown" /\ ev.key \in {"Enter", " ", "ArrowDown"}

\* C16: when the host has no toolbar module, or the module has no
\* container, the constructor throws and leaves nothing behind: rootEl is
\* not in the toolbar, no menu was rendered and none of the five listeners
\* is registered; with a toolbar container it does not throw and the
\* trigger, the menu and the listeners are in place.
C16_NoPartialInit ==
  ev.op = "constructor"
    => IF ev.toolbar \in {"absent", "noContainer"}
       THEN /\ ev.threw
            /\ ~attached
            /\ ~listening
            /\ menuChildren = <<>>
            /\ itemsEls = <<>>
            /\ ~ENABLED (ButtonClick \/ ButtonKeydown \/ MenuKeydown
                           \/ MenuClick \/ OutsideClick)
       ELSE ~ev.threw /\ attached /\ listening /\ hidden

\* the constructor has thrown on a toolbar module without a container,
\* given a catalog that has items
C16_Witness ==
  /\ ev.op = "constructor"
  /\ ev.toolbar = "noContainer"
  /\ ev.threw
  /\ getAvailableVariables(variables, includeParentNodes) # <<>>
  /\ ~attached

\* the operations that are input events, and those the host calls
InputEvents ==
  {"buttonClick", "buttonKeydown", "menuKeydown", "menuClick", "outsideClick"}

\* C17: every destroy(), the first and any later one, ends with no listener
\* registered and rootEl detached, and changes neither the open/closed
\* state nor the buffer; once destroyed, no step re-registers a listener,
\* no step is an input event handled by the component, the open/closed
\* state never changes and the buffer changes only by a call of insert().
C17_DestroyedIsInert ==
  [][ /\ ev'.op = "destroy"
         => /\ ~listening'
            /\ ~attached'
            /\ hidden' = hidden
            /\ text' = text
            /\ selection' = selection
      /\ ~listening
         => /\ ~listening'
            /\ ev'.op \notin InputEvents
            /\ hidden' = hidden
            /\ ariaExpanded' = ariaExpanded
            /\ ev'.op # "insert" => text' = text /\ selection' = selection
    ]_vars

\* destroy() has been called again on a destroyed component whose menu was
\* open and had items
C17_Witness ==
  /\ ev.op = "destroy"
  /\ ~ev.wasListening
  /\ ~ev.wasHidden
  /\ ~hidden
  /\ itemsEls # <<>>
  /\ ~listening
  /\ ~attached

\* the elements of sequence s
Elems(s) == {s[i] : i \in 1..Len(s)}

\* C18: at every moment, after any sequence of updateVariables calls, the
\* menu and the navigation list hold one item per node the current catalog
\* makes addressable (its leaves, or all its nodes when parents are
\* included) and nothing else: the same items in both, no address of an
\* earlier catalog, every group title that of an internal node of the
\* current catalog; getAvailableVariables returns those same addresses.
C18_MenuIsCurrentCatalog ==
  LET emitted == IF includeParentNodes THEN AllNodes ELSE LeafNodes
      shown == SelectSeq(menuChildren, IsItem)
      avail == getAvailableVariables(variables, includeParentNodes)
  IN  /\ Len(itemsEls) = Cardinality(emitted)
      /\ {el.path : el \in Elems(itemsEls)} = Addresses(emitted)
      /\ Len(shown) = Len(itemsEls)
      /\ Elems(shown) = Elems(itemsEls)
      /\ Len(avail) = Cardinality(emitted)
      /\ Elems(avail) = Addresses(emitted)
      /\ \A el \in Elems(menuChildren) :
           el.tag = "title"
             => \E kp \in InternalNodes :
                  el.text = TitleOrKey(NodeAt(variables, kp))

\* updateVariables has replaced, under an open menu, the catalog whose
\* focused item is not in the new menu
C18_Witness ==
  /\ ev.op = "updateVariables"
  /\ ~ev.wasHidden
  /\ ev.wasActive.tag = "item"
  /\ ev.wasActive.path \notin {el.path : el \in Elems(itemsEls)}
  /\ Len(itemsEls) >= 2

\* C19: while Open, an ArrowDown or ArrowUp keydown handled when focus is
\* on no item of the navigation list is a no-op: the menu stays Open, the
\* focused element is the one it was and no host call is made.
C19_StaleFocusNoOp ==
  (ev.op = "menuKeydown" /\ ev.key \in {"ArrowDown", "ArrowUp"}
     /\ ~ev.wasHidden /\ ~Contains(itemsEls, ev.wasActive))
    => /\ ~hidden
       /\ activeElement = ev.wasActive
       /\ calls = <<>>

\* C24: while Open with a non-empty navigation list, Home moves focus to
\* its first item and End to its last, wherever focus was (on any item or
\* on none), and the menu stays Open.
C24_HomeEndJump ==
  (ev.op = "menuKeydown" /\ ev.key \in {"Home", "End"} /\ ~ev.wasHidden
     /\ itemsEls # <<>>)
    => /\ ~hidden
       /\ ariaExpanded = "true"
       /\ ev.key = "Home" => activeElement = itemsEls[1]
       /\ ev.key = "End" => activeElement = itemsEls[Len(itemsEls)]
       /\ calls = <<>>

\* End has moved focus from no item to the last of several items
C24_Witness ==
  /\ ev.op = "menuKeydown"
  /\ ev.key = "End"
  /\ ev.wasActive.tag # "item"
  /\ Len(itemsEls) >= 3
  /\ activeElement = itemsEls[Len(itemsEls)]
  /\ ~hidden

\* C26: in every reachable state the trigger's aria-expanded attribute is
\* "true" exactly when the menu is not hidden, and "false" otherwise.
C26_AriaMatchesOpen ==
  /\ ariaExpanded \in {"true", "false"}
  /\ ariaExpanded = "true" <=> ~hidden

\* a click on an item has closed an open menu and reset aria-expanded
C26_Witness ==
  /\ ev.op = "menuClick"
  /\ ev.target.tag = "item"
  /\ ~ev.wasHidden
  /\ hidden
  /\ ariaExpanded = "false"

\* C28: a click on the trigger toggles the menu: an Open menu becomes
\* Closed with focus on the trigger, a Closed one becomes Open; an Enter,
\* Space or ArrowDown keydown on the trigger never closes it: the menu is
\* Open afterwards, also when it was Open before, with focus on the first
\* item of the menu (focus stays put when the menu has no item).
C28_ClickTogglesKeyOpens ==
  /\ ev.op = "buttonClick"
       => IF ev.wasHidden THEN ~hidden /\ ariaExpanded = "true"
          ELSE hidden /\ ariaExpanded = "false" /\ activeElement = ButtonEl
  /\ (ev.op = "buttonKeydown" /\ ev.key \in {"Enter", " ", "ArrowDown"})
       => /\ ~hidden
          /\ ariaExpanded = "true"
          /\ activeElement =
               IF itemsEls # <<>> THEN itemsEls[1] ELSE ev.wasActive
          /\ LET shown == SelectSeq(menuChildren, IsItem)
             IN  shown # <<>> => activeElement = shown[1]

\* Enter on the trigger of an open menu whose third item had focus has
\* left the menu open, focus on the first item
C28_Witness ==
  /\ ev.op = "buttonKeydown"
  /\ ev.key = "Enter"
  /\ ~ev.wasHidden
  /\ ev.wasActive.tag = "item"
  /\ ev.wasActive.id = 3
  /\ ~hidden
  /\ activeElement = itemsEls[1]

\* C29: a click inside the open menu on a group title or a divider leaves
\* the menu open and aria-expanded "true", leaves focus where it was,
\* changes neither the menu's content nor the buffer nor the selection,
\* and makes no call to the host.
C29_ClickOffItemIsInert ==
  [][ (ev'.op = "menuClick" /\ ev'.target.tag \in {"title", "divider"})
        => /\ ~hidden
           /\ ~hidden'
           /\ ariaExpanded' = "true"
           /\ activeElement' = activeElement
           /\ calls' = <<>>
           /\ UNCHANGED <<text, selection, menuChildren, itemsEls, variables>>
    ]_vars

\* a group title of an open menu was clicked while the second item had
\* focus and the buffer was not empty
C29_Witness ==
  /\ ev.op = "menuClick"
  /\ ev.target.tag = "title"
  /\ ~hidden
  /\ activeElement.tag = "item"
  /\ activeElement.id = 2
  /\ ev.wasActive = activeElement
  /\ text # <<>>
  /\ calls = <<>>

\* C30: a call of insert(address) by the host application changes neither
\* the menu's open/closed state, nor aria-expanded, nor the menu's content
\* and item list, nor the catalog and options; and for any address, offered
\* by getAvailableVariables() or not, when the host reports a selection (at
\* once or after the one focus retry) the buffer afterwards is the buffer
\* before with the selected range replaced by the formatted token of that
\* address, with at most one space on either side, and the caret just
\* after it. With no selection even after the retry the buffer is unchanged.
C30_InsertAnyAddress ==
  [][ ev'.op = "insert"
        => /\ UNCHANGED <<hidden, ariaExpanded, menuChildren, itemsEls,
                          variables, includeParentNodes, token, listening,
                          attached>>
           /\ LET tok == formatToken(token, ev'.path)
                  wrote == \E c \in 1..Len(calls') : IsMutation(calls'[c])
              IN  \/ /\ ~wrote
                     /\ ~selection.present
                     /\ ~selection'.present
                     /\ text' = text
                  \/ /\ wrote
                     /\ \E i \in 0..Len(text), lead, trail \in {<<>>, <<" ">>} :
                          \E n \in 0..(Len(text) - i) :
                            LET put == lead \o tok \o trail
                            IN  /\ selection.present => selection = Range(i, n)
                                /\ text' = Slice(text, 0, i) \o put
                                             \o Slice(text, i + n, Len(text))
                                /\ selection' = Range(i + Len(put), 0)
    ]_vars

\* insert("z.z") was called while the menu was open on a catalog that has
\* no such address: the menu is still open and the buffer holds the token
C30_Witness ==
  /\ ev.op = "insert"
  /\ ev.path = <<"z", ".", "z">>
  /\ ~ev.wasHidden
  /\ ~hidden
  /\ variables # <<>>
  /\ \A i \in 1..Len(getAvailableVariables(variables, includeParentNodes)) :
       getAvailableVariables(variables, includeParentNodes)[i] # ev.path
  /\ LET tok == formatToken(token, ev.path)
     IN  \E i \in 0..Len(text) : Slice(text, i, Len(tok)) = tok

\* C1: if the menu is Open when updateVariables is called, it is Closed
\* when the call returns.
C1_ForcedClose ==
  (ev.op = "updateVariables" /\ ~ev.wasHidden) => hidden

\* C2: pointer activation of an item of the open menu runs the insertion
\* with the token formatted from that item's own address, and the menu ends
\* Closed with focus on the trigger, also when no selection was available
\* and nothing was inserted.
C2_ClickCommits ==
  (ev.op = "menuClick" /\ ev.target.tag = "item")
    => /\ Contains(itemsEls, ev.target)
       /\ hidden
       /\ ariaExpanded = "false"
       /\ activeElement = ButtonEl
       /\ LET inserted == SelectSeq(calls, IsInsertText)
          IN  \/ /\ Len(inserted) = 1
                 /\ inserted[1].text \in Spaced(formatToken(token, ev.target.path))
                 /\ selection = Range(inserted[1].index + Len(inserted[1].text), 0)
              \/ /\ SelectSeq(calls, IsMutation) = <<>>
                 /\ ~selection.present

\* an item other than the first has been clicked and its token inserted
C2_Witness ==
  /\ ev.op = "menuClick"
  /\ ev.target.tag = "item"
  /\ ev.target.id >= 2
  /\ Len(SelectSeq(calls, IsInsertText)) = 1
  /\ hidden

\* C3: while the menu is Open and an item has focus, Enter or Space in the
\* menu commits the item: the insertion runs and the menu becomes Closed.
C3_KeyboardCommits ==
  (ev.op = "menuKeydown" /\ ev.key \in {"Enter", " "} /\ ev.wasActive.tag = "item")
    => hidden /\ Len(calls) > 0

\* C4, as stated: the menu starts Closed; activating the trigger of a closed
\* menu opens it with focus on the item whose address is
\* getAvailableVariables()[0], and on no item when the list is empty.
C4_FocusFirstFlattened ==
  /\ ev.op = "constructor" => hidden
  /\ TriggerActivated =>
       LET avail == getAvailableVariables(variables, includeParentNodes)
       IN  /\ ~hidden
           /\ IF avail = <<>> THEN activeElement = ev.wasActive
              ELSE activeElement.tag = "item" /\ activeElement.path = avail[1]

\* C4, amended: the menu starts Closed; activating the trigger of a closed
\* menu opens it with focus on the first item of the menu as laid out: the
\* first ungrouped item of the flattened list if it has one, otherwise its
\* first item; with an empty list the menu opens and focus stays put.
C4_FocusFirstMenuItem ==
  /\ ev.op = "constructor" => hidden
  /\ TriggerActivated =>
       LET items == collectLeaves(variables, <<>>, NoGroup, includeParentNodes)
           Ungrouped(it) == ~it.group.present
           top == SelectSeq(items, Ungrouped)
       IN  /\ ~hidden
           /\ ariaExpanded = "true"
           /\ IF items = <<>> THEN activeElement = ev.wasActive
              ELSE /\ activeElement = itemsEls[1]
                   /\ activeElement.tag = "item"
                   /\ activeElement.path =
                        IF top # <<>> THEN top[1].path ELSE items[1].path

\* a keydown on the trigger has opened the menu on an item that is not the
\* first of the flattened list
C4_Witness ==
  /\ TriggerActivated
  /\ ev.op = "buttonKeydown"
  /\ ~hidden
  /\ activeElement.tag = "item"
  /\ activeElement.path # getAvailableVariables(variables, includeParentNodes)[1]

\* C5: while Open, Escape in the menu or a click outside the trigger and
\* the menu closes the menu with focus on the trigger and makes no
\* deleteText, insertText or setSelection call: the buffer and the host
\* selection are unchanged.
C5_CancelNoCommit ==
  [][ ( \/ ev'.op = "menuKeydown" /\ ev'.key = "Escape" /\ ~hidden
        \/ ev'.op = "outsideClick" /\ ~hidden )
      => /\ hidden'
         /\ activeElement' = ButtonEl
         /\ SelectSeq(calls', IsMutation) = <<>>
         /\ text' = text
         /\ selection' = selection ]_vars

\* a click outside has closed a menu whose second item had focus
C5_Witness ==
  /\ ev.op = "outsideClick"
  /\ ~ev.wasHidden
  /\ ev.wasActive.tag = "item"
  /\ ev.wasActive.id = 2
  /\ hidden
  /\ activeElement = ButtonEl

\* C6: while Open with n >= 1 items and focus on the item at position i of
\* the navigation list, ArrowDown moves focus to position (i+1) mod n and
\* ArrowUp to position (i-1) mod n, and the menu stays Open.
C6_Wraparound ==
  (ev.op = "menuKeydown" /\ ev.key \in {"ArrowDown", "ArrowUp"}
     /\ Contains(itemsEls, ev.wasActive))
    => LET n == Len(itemsEls)
           i == CHOOSE k \in 0..(n - 1) : itemsEls[k + 1] = ev.wasActive
       IN  /\ ~hidden
           /\ ev.key = "ArrowDown" => activeElement = itemsEls[((i + 1) % n) + 1]
           /\ ev.key = "ArrowUp" => activeElement = itemsEls[((i - 1 + n) % n) + 1]

\* ArrowDown on the last of several items has moved focus to the first
C6_Witness ==
  /\ ev.op = "menuKeydown"
  /\ ev.key = "ArrowDown"
  /\ Len(itemsEls) >= 3
  /\ ev.wasActive = itemsEls[Len(itemsEls)]
  /\ activeElement = itemsEls[1]
  /\ ~hidden

=============================================================================
